---- MODULE Spec2Model ----
(***************************************************************************)
(* A model of crysanalyze (src/crysanalyze.py): the numeric pipeline of    *)
(* main() -- read_xrd_data, the 2-theta range mask, subtract_background    *)
(* and find_peaks -- as a state machine.                                   *)
(*                                                                         *)
(* Numbers.  Angles are integers counted in units of half a degree         *)
(* (UnitsPerDegree units make one degree), so the code's default           *)
(* min_dist of 0.5 degrees is DefaultMinDist units.  Intensities are       *)
(* rationals kept as integer numerators over one common positive           *)
(* denominator (the variable denom); a raw scan has denom = 1.  All        *)
(* arithmetic is exact where the program computes in float64, so two       *)
(* values that are equal here may differ in the last bit there.  None is   *)
(* the empty tuple and a present optional value v is the one-element       *)
(* tuple <<v>>.  Sequences are indexed from 1, so index i of the model is  *)
(* index i-1 of the Python arrays.  An exception is an outcome whose kind  *)
(* is the name of its Python class; the arrays are numpy arrays, as main   *)
(* passes them.                                                            *)
(*                                                                         *)
(* Spec is one run of main.  SpecPeaks is one call of find_peaks on any    *)
(* series of the bounds.                                                   *)
(***************************************************************************)
EXTENDS Integers, Sequences, FiniteSets, TLC

VARIABLES file, args, pc, two_theta, intensity, denom, bg_call, fp_call, result

vars == <<file, args, pc, two_theta, intensity, denom, bg_call, fp_call, result>>

(* Bounds of the model. *)
MaxLen == 5
MaxIntensity == 2
MaxStep == 2
MaxDist == 5
MaxOrder == 2
MaxRows == 3

(* Units of the angle axis per degree, and the code's default min_dist     *)
(* (0.5 degrees) and default min_height (0.1 of the maximum) in them.      *)
UnitsPerDegree == 2
DefaultMinDist == UnitsPerDegree \div 2
HeightTenths == 10

None == <<>>
Some(v) == <<v>>

Abs(a) == IF a < 0 THEN -a ELSE a
Sign(a) == IF a < 0 THEN -1 ELSE IF a > 0 THEN 1 ELSE 0

RECURSIVE SeqMax(_)
SeqMax(s) == IF Len(s) = 1 THEN s[1]
             ELSE LET m == SeqMax(Tail(s)) IN IF s[1] > m THEN s[1] ELSE m

Ok(r) == r.kind = "ok"

Raise(kind) == [kind |-> kind, distance |-> None, peak_indices |-> <<>>, peaks |-> <<>>]

(* Python's round(a / b) for a >= 0 and b > 0: to nearest, halves to even. *)
RoundDiv(a, b) ==
    LET q == a \div b
        r == a % b
    IN IF 2 * r < b THEN q
       ELSE IF 2 * r > b THEN q + 1
       ELSE IF q % 2 = 0 THEN q ELSE q + 1

(* int(a / b) of Python for b # 0: the quotient truncated toward zero. *)
TruncDiv(a, b) == Sign(a) * Sign(b) * (Abs(a) \div Abs(b))

----------------------------------------------------------------------------
(* scipy.signal.find_peaks as find_peaks calls it (height and distance).   *)

(* _local_maxima_1d, the look-ahead loop: the first index at or after      *)
(* i_ahead that is the last sample or holds a value unequal to x[i].       *)
RECURSIVE PlateauEnd(_, _, _)
PlateauEnd(x, i, i_ahead) ==
    IF i_ahead < Len(x) /\ x[i_ahead] = x[i] THEN PlateauEnd(x, i, i_ahead + 1)
    ELSE i_ahead

(* _local_maxima_1d from sample i on: the midpoints of the maxima. *)
RECURSIVE LocalMaximaFrom(_, _)
LocalMaximaFrom(x, i) ==
    IF i >= Len(x) THEN <<>>
    ELSE IF x[i - 1] < x[i]
         THEN LET i_ahead == PlateauEnd(x, i, i + 1)
              IN IF x[i_ahead] < x[i]
                 THEN <<(i + (i_ahead - 1)) \div 2>> \o LocalMaximaFrom(x, i_ahead + 1)
                 ELSE LocalMaximaFrom(x, i + 1)
         ELSE LocalMaximaFrom(x, i + 1)

LocalMaxima1D(x) == LocalMaximaFrom(x, 2)

(* The height threshold times HeightTenths * denom: the caller's           *)
(* min_height, or 0.1 * np.max(intensity) when none is given.              *)
Threshold10(y, den, min_height) ==
    IF min_height = None THEN SeqMax(y) ELSE HeightTenths * min_height[1] * den

(* The height condition left out of the selection. *)
HeightOk_Ignored(y, i, h10) == TRUE

(* _select_by_property: hmin <= peak height. *)
HeightOk(y, i, h10) == HeightTenths * y[i] >= h10

SelectByHeight(y, peaks, h10) == SelectSeq(peaks, LAMBDA i : HeightOk(y, i, h10))

(* The priorities sorted the other way round: the lowest peak goes first.  *)
ArgSorts_Descending(y, peaks) ==
    LET k == Len(peaks)
    IN {p \in [1..k -> 1..k] :
           /\ \A a, b \in 1..k : a # b => p[a] # p[b]
           /\ \A a, b \in 1..k : a < b => y[peaks[p[a]]] >= y[peaks[p[b]]]}

(* The results np.argsort may give for the priorities: a permutation of    *)
(* the peak slots with non-decreasing priority.  The default sort is not   *)
(* stable, so the order among equal priorities is the build's choice.      *)
ArgSorts(y, peaks) ==
    LET k == Len(peaks)
    IN {p \in [1..k -> 1..k] :
           /\ \A a, b \in 1..k : a # b => p[a] # p[b]
           /\ \A a, b \in 1..k : a < b => y[peaks[p[a]]] <= y[peaks[p[b]]]}

(* _select_by_peak_distance, the loop from priority slot i down to 1;      *)
(* keep is the set of peak slots still flagged.                            *)
RECURSIVE SuppressFrom(_, _, _, _, _)
SuppressFrom(peaks, p2p, distance, i, keep) ==
    IF i = 0 THEN keep
    ELSE LET j == p2p[i]
         IN IF j \notin keep
            THEN SuppressFrom(peaks, p2p, distance, i - 1, keep)
            ELSE SuppressFrom(peaks, p2p, distance, i - 1,
                     {k \in keep : k = j \/ Abs(peaks[k] - peaks[j]) >= distance})

(* The distance condition left out of the selection. *)
SelectByDistance_None(peaks, p2p, distance) == peaks

SelectByDistance(peaks, p2p, distance) ==
    LET keep == SuppressFrom(peaks, p2p, distance, Len(peaks), 1..Len(peaks))
    IN SelectSeq([k \in 1..Len(peaks) |-> IF k \in keep THEN peaks[k] ELSE 0],
                 LAMBDA i : i # 0)

(* signal.find_peaks(x, height, distance): the possible index arrays. *)
SignalFindPeaks(y, h10, distance) ==
    LET cand == SelectByHeight(y, LocalMaxima1D(y), h10)
    IN {SelectByDistance(cand, p2p, distance) : p2p \in ArgSorts(y, cand)}

----------------------------------------------------------------------------
(* find_peaks of crysanalyze.                                              *)

(* The distance argument rounded to nearest instead of truncated. *)
IndexDistance_Rounded(tt, md) == RoundDiv(md, tt[2] - tt[1])

(* The distance argument: int(min_dist / (two_theta[1] - two_theta[0])). *)
IndexDistance(tt, md) == TruncDiv(md, tt[2] - tt[1])

EffectiveMinDist(min_dist) == IF min_dist = None THEN DefaultMinDist ELSE min_dist[1]

(* The peak records built from the index array read backwards. *)
BuildPeaks_Reversed(tt, y, idx) ==
    [k \in 1..Len(idx) |->
        [position |-> tt[idx[Len(idx) + 1 - k]], intensity |-> y[idx[Len(idx) + 1 - k]],
         fwhm |-> None]]

(* The peak records built from the index array. *)
BuildPeaks(tt, y, idx) ==
    [k \in 1..Len(idx) |->
        [position |-> tt[idx[k]], intensity |-> y[idx[k]], fwhm |-> None]]

(* The outcomes of find_peaks(two_theta, intensity, min_height, min_dist,   *)
(* fit_peaks) on numpy arrays: a list of peaks, or the exception raised.    *)
find_peaks(tt, y, den, min_height, min_dist, fit_peaks) ==
    IF min_height = None /\ Len(y) = 0 THEN {Raise("ValueError")}
    ELSE IF Len(tt) < 2 THEN {Raise("IndexError")}
    ELSE IF tt[2] = tt[1] THEN {Raise("OverflowError")}
    ELSE LET d == IndexDistance(tt, EffectiveMinDist(min_dist))
         IN IF d < 1
            THEN {[kind |-> "ValueError", distance |-> Some(d),
                   peak_indices |-> <<>>, peaks |-> <<>>]}
            ELSE {[kind |-> "ok", distance |-> Some(d),
                   peak_indices |-> idx, peaks |-> BuildPeaks(tt, y, idx)] :
                     idx \in SignalFindPeaks(y, Threshold10(y, den, min_height), d)}

----------------------------------------------------------------------------
(* subtract_background: np.polyfit, np.polyval and the subtraction.        *)

RECURSIVE GCD(_, _)
GCD(a, b) == IF b = 0 THEN Abs(a) ELSE GCD(Abs(b), Abs(a) % Abs(b))

RECURSIVE SeqGCD(_)
SeqGCD(s) == IF Len(s) = 0 THEN 0 ELSE GCD(s[1], SeqGCD(Tail(s)))

RECURSIVE SeqSum(_)
SeqSum(s) == IF Len(s) = 0 THEN 0 ELSE s[1] + SeqSum(Tail(s))

RECURSIVE SeqProd(_)
SeqProd(s) == IF Len(s) = 0 THEN 1 ELSE s[1] * SeqProd(Tail(s))

RECURSIVE Pow(_, _)
Pow(a, p) == IF p = 0 THEN 1 ELSE a * Pow(a, p - 1)

(* A series of numerators over den, reduced to lowest terms. *)
Reduce(num, den) ==
    LET g == GCD(den, SeqGCD(num))
    IN [intensity |-> [i \in 1..Len(num) |-> num[i] \div g], denom |-> den \div g]

Minor(M, c) ==
    [r \in 1..(Len(M) - 1) |->
        [cc \in 1..(Len(M) - 1) |-> M[r + 1][IF cc < c THEN cc ELSE cc + 1]]]

RECURSIVE Det(_)
Det(M) ==
    IF Len(M) = 1 THEN M[1][1]
    ELSE SeqSum([c \in 1..Len(M) |->
                    (IF c % 2 = 1 THEN 1 ELSE -1) * M[1][c] * Det(Minor(M, c))])

(* The abscissae on the integer grid of their own spacing: a polynomial    *)
(* fit's residuals do not change under a shift and a rescaling of x.       *)
GridCoordinates(x) ==
    LET g == SeqGCD([i \in 1..Len(x) |-> x[i] - x[1]])
    IN [i \in 1..Len(x) |-> IF g = 0 THEN 0 ELSE (x[i] - x[1]) \div g]

DistinctCount(x) == Cardinality({x[i] : i \in 1..Len(x)})

(* The rank lstsq finds for the Vandermonde matrix of degree order. *)
FitRank(x, order) ==
    IF DistinctCount(x) < order + 1 THEN DistinctCount(x) ELSE order + 1

(* intensity - polyval(polyfit(x, y, order), x) where the Vandermonde      *)
(* matrix has full column rank and more rows than columns: the normal      *)
(* equations solved by Cramer's rule, the residuals over their determinant.*)
FullRankResiduals(x, y, den, order) ==
    LET u == GridCoordinates(x)
        n == Len(x)
        k == order + 1
        S(p) == SeqSum([i \in 1..n |-> Pow(u[i], p)])
        B(p) == SeqSum([i \in 1..n |-> Pow(u[i], p) * y[i]])
        A == [r \in 1..k |-> [c \in 1..k |-> S(r + c - 2)]]
        Aj(j) == [r \in 1..k |-> [c \in 1..k |-> IF c = j THEN B(r - 1) ELSE S(r + c - 2)]]
        D == Det(A)
        N == [j \in 1..k |-> Det(Aj(j))]
    IN Reduce([i \in 1..n |->
                  D * y[i] - SeqSum([j \in 1..k |-> N[j] * Pow(u[i], j - 1)])],
              D * den)

(* The same where the polynomial can pass through the mean of the samples  *)
(* of every abscissa (no more distinct abscissae than coefficients): the   *)
(* minimum-norm least-squares solution lstsq returns fits those means.     *)
MeanResiduals(x, y, den) ==
    LET n == Len(x)
        group(i) == {j \in 1..n : x[j] = x[i]}
        size == [i \in 1..n |-> Cardinality(group(i))]
        total(i) == SeqSum([j \in 1..n |-> IF x[j] = x[i] THEN y[j] ELSE 0])
        M == SeqProd(size)
    IN Reduce([i \in 1..n |-> (M \div size[i]) * (size[i] * y[i] - total(i))], M * den)

(* The outcomes of subtract_background(two_theta, intensity, order). *)
subtract_background(x, y, den, order) ==
    IF order < 0
    THEN [kind |-> "ValueError", warning |-> "", intensity |-> <<>>, denom |-> 1]
    ELSE IF Len(x) = 0
    THEN [kind |-> "TypeError", warning |-> "", intensity |-> <<>>, denom |-> 1]
    ELSE LET r == IF DistinctCount(x) <= order + 1
                  THEN MeanResiduals(x, y, den)
                  ELSE FullRankResiduals(x, y, den, order)
         IN [kind |-> "ok",
             warning |-> IF FitRank(x, order) # order + 1 THEN "RankWarning" ELSE "",
             intensity |-> r.intensity, denom |-> r.denom]

----------------------------------------------------------------------------
(* read_xrd_data and the inputs of a run.                                  *)

(* A scan on the grid that starts at 1, makes one step of first and then   *)
(* steps of rest. *)
Grid(n, first, rest) ==
    [i \in 1..n |-> IF i = 1 THEN 1 ELSE 1 + first + (i - 2) * rest]

Intensities(n) == [1..n -> 0..MaxIntensity]

(* The outcome of read_xrd_data(args.input): the two columns, or the error *)
(* main reports before it exits.  np.loadtxt gives a one-dimensional array *)
(* for an empty file, a single row or a single column, and data.shape[1]   *)
(* then fails. *)
read_xrd_data(f) ==
    IF ~f.exists
    THEN [kind |-> "FileNotFoundError", two_theta |-> <<>>, intensity |-> <<>>]
    ELSE IF Len(f.two_theta) < 2 \/ f.ncols # 2
    THEN [kind |-> "ValueError", two_theta |-> <<>>, intensity |-> <<>>]
    ELSE [kind |-> "ok", two_theta |-> f.two_theta, intensity |-> f.intensity]

NoFile == [exists |-> FALSE, ncols |-> 2, two_theta |-> <<>>, intensity |-> <<>>]

(* The files of the model: none, one of the wrong width, and two-column    *)
(* scans of up to MaxRows rows on a uniform grid. *)
Files ==
    {NoFile}
    \cup {[exists |-> TRUE, ncols |-> c, two_theta |-> Grid(2, 1, 1), intensity |-> <<0, 0>>] :
             c \in {1, 3}}
    \cup UNION {{[exists |-> TRUE, ncols |-> 2, two_theta |-> Grid(n, s, s), intensity |-> y] :
                    s \in 0..MaxStep, y \in Intensities(n)} : n \in 0..MaxRows}

Windows ==
    {None} \cup UNION {{<<lo, hi>> : hi \in lo..(MaxStep + 2)} : lo \in 1..(MaxStep + 2)}

NoArgs ==
    [range |-> None, command |-> "peaks", bg_poly |-> None, min_height |-> None,
     min_dist |-> None, fit_peaks |-> FALSE, plot_type |-> "raw"]

(* The command lines of the model. *)
CommandLines ==
    {[range |-> w, command |-> "peaks", bg_poly |-> b, min_height |-> h,
      min_dist |-> o[1], fit_peaks |-> o[2], plot_type |-> "raw"] :
        w \in Windows, b \in {None} \cup {Some(k) : k \in -1..MaxOrder},
        h \in {None, Some(1)}, o \in {<<None, FALSE>>, <<Some(UnitsPerDegree), TRUE>>}}
    \cup
    {[range |-> w, command |-> "plot", bg_poly |-> b, min_height |-> None,
      min_dist |-> None, fit_peaks |-> FALSE, plot_type |-> t] :
        w \in Windows, b \in {None} \cup {Some(k) : k \in -1..MaxOrder},
        t \in {"raw", "bgsub", "peaks"}}

NoResult == Raise("none")

----------------------------------------------------------------------------
(* main: one run of the command line tool.                                 *)

Init ==
    /\ file \in Files
    /\ args \in CommandLines
    /\ pc = "main"
    /\ two_theta = <<>>
    /\ intensity = <<>>
    /\ denom = 1
    /\ bg_call = None
    /\ fp_call = None
    /\ result = NoResult

(* Lines 119-124: read the input, or report the error and exit(1). *)
ReadInput ==
    /\ pc = "main"
    /\ LET r == read_xrd_data(file)
       IN IF Ok(r)
          THEN /\ two_theta' = r.two_theta
               /\ intensity' = r.intensity
               /\ pc' = "range"
               /\ UNCHANGED result
          ELSE /\ result' = Raise(r.kind)
               /\ pc' = "exit"
               /\ UNCHANGED <<two_theta, intensity>>
    /\ UNCHANGED <<file, args, denom, bg_call, fp_call>>

(* The mask with both bounds exclusive. *)
MaskRange_Exclusive(tt, a, range) ==
    LET keep == {i \in 1..Len(tt) : tt[i] > range[1] /\ tt[i] < range[2]}
    IN SelectSeq([i \in 1..Len(a) |-> <<i, a[i]>>], LAMBDA e : e[1] \in keep)

(* The boolean mask of lines 128-130 applied to one array. *)
MaskRange(tt, a, range) ==
    LET keep == {i \in 1..Len(tt) : tt[i] >= range[1] /\ tt[i] <= range[2]}
    IN SelectSeq([i \in 1..Len(a) |-> <<i, a[i]>>], LAMBDA e : e[1] \in keep)

Values(pairs) == [i \in 1..Len(pairs) |-> pairs[i][2]]

(* Lines 126-130: the 2-theta range. *)
ApplyRange ==
    /\ pc = "range"
    /\ IF args.range # None
       THEN /\ two_theta' = Values(MaskRange(two_theta, two_theta, args.range))
            /\ intensity' = Values(MaskRange(two_theta, intensity, args.range))
       ELSE UNCHANGED <<two_theta, intensity>>
    /\ pc' = "background"
    /\ UNCHANGED <<file, args, denom, bg_call, fp_call, result>>

(* Lines 135-136 and 162-163: background subtraction if requested. *)
Background ==
    /\ pc = "background"
    /\ IF args.bg_poly # None
       THEN LET r == subtract_background(two_theta, intensity, denom, args.bg_poly[1])
            IN /\ bg_call' = Some([two_theta |-> two_theta, intensity |-> intensity,
                                   order |-> args.bg_poly[1], kind |-> r.kind,
                                   warning |-> r.warning])
               /\ IF Ok(r)
                  THEN /\ intensity' = r.intensity
                       /\ denom' = r.denom
                       /\ pc' = "detect"
                       /\ UNCHANGED result
                  ELSE /\ result' = Raise(r.kind)
                       /\ pc' = "crashed"
                       /\ UNCHANGED <<intensity, denom>>
       ELSE /\ pc' = "detect"
            /\ UNCHANGED <<intensity, denom, bg_call, result>>
    /\ UNCHANGED <<file, args, two_theta, fp_call>>

(* A call of find_peaks on the current series. *)
CallFindPeaks(min_height, min_dist, fit_peaks, returned) ==
    /\ \E r \in find_peaks(two_theta, intensity, denom, min_height, min_dist, fit_peaks) :
          /\ result' = r
          /\ pc' = IF Ok(r) THEN returned ELSE "crashed"
    /\ fp_call' = Some([two_theta |-> two_theta, intensity |-> intensity,
                        min_height |-> min_height, min_dist |-> min_dist,
                        fit_peaks |-> fit_peaks])
    /\ UNCHANGED <<file, args, two_theta, intensity, denom, bg_call>>

(* Lines 138-145: the peaks command finds the peaks. *)
PeaksCommand ==
    /\ pc = "detect"
    /\ args.command = "peaks"
    /\ CallFindPeaks(args.min_height, args.min_dist, args.fit_peaks, "report")

(* Lines 147-158: the peaks command writes its table. *)
Report ==
    /\ pc = "report"
    /\ pc' = "done"
    /\ UNCHANGED <<file, args, two_theta, intensity, denom, bg_call, fp_call, result>>

(* Lines 165-177: the plot of the peaks type marks the peaks find_peaks    *)
(* finds with its defaults. *)
PlotPeaks ==
    /\ pc = "detect"
    /\ args.command = "plot"
    /\ args.plot_type = "peaks"
    /\ CallFindPeaks(None, None, FALSE, "done")

(* Lines 165-173: the raw and bgsub plots draw the series. *)
PlotSeries ==
    /\ pc = "detect"
    /\ args.command = "plot"
    /\ args.plot_type # "peaks"
    /\ pc' = "done"
    /\ UNCHANGED <<file, args, two_theta, intensity, denom, bg_call, fp_call, result>>

Next ==
    \/ ReadInput
    \/ ApplyRange
    \/ Background
    \/ PeaksCommand
    \/ Report
    \/ PlotPeaks
    \/ PlotSeries

Spec == Init /\ [][Next]_vars

----------------------------------------------------------------------------
(* find_peaks as a function: any series, any thresholds.                   *)

Thresholds == {None} \cup {Some(h) : h \in 1..MaxIntensity}
Distances == {None} \cup {Some(d) : d \in 1..MaxDist}

InitPeaks ==
    /\ file = NoFile
    /\ \E h \in Thresholds, d \in Distances, f \in BOOLEAN :
          args = [NoArgs EXCEPT !.min_height = h, !.min_dist = d, !.fit_peaks = f]
    /\ pc = "find_peaks"
    /\ \E n \in 0..MaxLen, first \in 0..MaxStep, rest \in 0..MaxStep :
          /\ two_theta = Grid(n, first, rest)
          /\ intensity \in Intensities(n)
    /\ denom = 1
    /\ bg_call = None
    /\ fp_call = None
    /\ result = NoResult

FindPeaks ==
    /\ pc = "find_peaks"
    /\ CallFindPeaks(args.min_height, args.min_dist, args.fit_peaks, "returned")

NextPeaks == FindPeaks

SpecPeaks == InitPeaks /\ [][NextPeaks]_vars

----------------------------------------------------------------------------
(* Properties of find_peaks, read off the last call and its outcome.       *)

Called == fp_call # None
Returned == Called /\ Ok(result)

CallAngle == fp_call[1].two_theta
CallIntensity == fp_call[1].intensity
CallMinDist == IF fp_call[1].min_dist = None THEN DefaultMinDist ELSE fp_call[1].min_dist[1]
CallStep == CallAngle[2] - CallAngle[1]
Kept == {result.peak_indices[k] : k \in 1..Len(result.peak_indices)}
PeakCount == Len(result.peaks)

StrictlyAscending(tt) == \A i \in 1..(Len(tt) - 1) : tt[i] < tt[i + 1]
NonDecreasing(tt) == \A i \in 1..(Len(tt) - 1) : tt[i] <= tt[i + 1]
Uniform(tt) == Len(tt) >= 2 /\ tt[1] < tt[2] /\ \A i \in 1..(Len(tt) - 1) : tt[i + 1] - tt[i] = tt[2] - tt[1]

(* The effective threshold in tenths of the common denominator. *)
CallThreshold10 ==
    IF fp_call[1].min_height = None
    THEN CHOOSE m \in {CallIntensity[i] : i \in 1..Len(CallIntensity)} :
             \A i \in 1..Len(CallIntensity) : CallIntensity[i] <= m
    ELSE 10 * fp_call[1].min_height[1] * denom

AboveThreshold(i) == 10 * CallIntensity[i] >= CallThreshold10

StrictMaximum(y, i) == 1 < i /\ i < Len(y) /\ y[i - 1] < y[i] /\ y[i] > y[i + 1]

(* i is the middle (the lower middle of an even run) of a run of equal     *)
(* samples whose two outer neighbours are both strictly lower. *)
PlateauMaximum(y, i) ==
    \E l \in 2..i, r \in i..(Len(y) - 1) :
        /\ \A k \in l..r : y[k] = y[i]
        /\ y[l - 1] < y[i]
        /\ y[r + 1] < y[i]
        /\ i = (l + r) \div 2

Candidate(i) == PlateauMaximum(CallIntensity, i) /\ AboveThreshold(i)
Candidates == {i \in 1..Len(CallIntensity) : Candidate(i)}

(* C1 as stated: on every series with ascending angle, two returned peaks  *)
(* are at least min_distance_degrees apart, to within one sampling step.   *)
C1_SeparationAnySeries ==
    (Returned /\ StrictlyAscending(CallAngle)) =>
        \A a, b \in 1..PeakCount :
            result.peaks[a].position < result.peaks[b].position =>
                result.peaks[b].position - result.peaks[a].position + CallStep >= CallMinDist

(* C1 amended: on every uniformly sampled series (each step equal to the   *)
(* first, positive step), two returned peaks at different positions are    *)
(* at least min_distance_degrees apart, to within one sampling step.       *)
C1_SeparationUniform ==
    (Returned /\ Uniform(CallAngle)) =>
        \A a, b \in 1..PeakCount :
            result.peaks[a].position < result.peaks[b].position =>
                result.peaks[b].position - result.peaks[a].position + CallStep >= CallMinDist

(* A uniform series on which two peaks are returned closer together than   *)
(* min_dist: the one-step tolerance is used. *)
C1_Witness ==
    /\ Returned
    /\ Uniform(CallAngle)
    /\ PeakCount >= 2
    /\ result.peaks[2].position - result.peaks[1].position < CallMinDist

(* C2 as stated: of two candidates closer than the index separation at     *)
(* most one is kept, and of two such candidates of equal intensity the     *)
(* one kept, if any, is the leftmost.                                      *)
C2_LeftmostWinsTies ==
    Returned =>
        \A a, b \in Candidates :
            (a < b /\ b - a < result.distance[1]) =>
                /\ ~(a \in Kept /\ b \in Kept)
                /\ (CallIntensity[a] = CallIntensity[b] /\ b \in Kept) => a \in Kept

(* C2 amended: of two candidates closer than the index separation at most  *)
(* one is kept, every candidate that is dropped has a kept candidate of at *)
(* least its intensity closer than the separation, and only candidates are *)
(* kept; between equal intensities either one may be the one kept.         *)
C2_ClusterSuppression ==
    Returned =>
        /\ Kept \subseteq Candidates
        /\ \A a, b \in Kept : a # b => Abs(a - b) >= result.distance[1]
        /\ \A c \in Candidates \ Kept :
              \E k \in Kept : /\ Abs(k - c) < result.distance[1]
                              /\ CallIntensity[k] >= CallIntensity[c]

(* Two candidates of equal intensity inside the separation, the right one  *)
(* kept and the left one dropped. *)
C2_Witness ==
    /\ Returned
    /\ \E a, b \in Candidates :
          /\ a < b
          /\ b - a < result.distance[1]
          /\ CallIntensity[a] = CallIntensity[b]
          /\ b \in Kept
          /\ a \notin Kept

(* C3 as stated: every returned index is a strict local maximum among its  *)
(* immediate neighbours, at or above the effective threshold.              *)
C3_StrictLocalMaximum ==
    Returned => \A i \in Kept : StrictMaximum(CallIntensity, i) /\ AboveThreshold(i)

(* C3 amended: every returned index is at or above the effective threshold *)
(* and is a strict local maximum or the middle sample of a flat plateau    *)
(* whose outer neighbours are both strictly lower.                         *)
C3_LocalMaximumOrPlateau ==
    Returned => \A i \in Kept : PlateauMaximum(CallIntensity, i) /\ AboveThreshold(i)

(* A returned index inside a flat plateau. *)
C3_Witness ==
    /\ Returned
    /\ \E i \in Kept : CallIntensity[i + 1] = CallIntensity[i]

(* C4 as stated: on a series whose angle is non-decreasing, consecutive    *)
(* returned peaks have strictly increasing position.                       *)
C4_StrictOrder ==
    (Returned /\ NonDecreasing(CallAngle)) =>
        \A k \in 1..(PeakCount - 1) :
            result.peaks[k].position < result.peaks[k + 1].position

(* C4 amended: on a series whose angle is non-decreasing, consecutive      *)
(* returned peaks have non-decreasing position, and strictly increasing    *)
(* position when the angle is strictly ascending.                          *)
C4_Order ==
    (Returned /\ NonDecreasing(CallAngle)) =>
        \A k \in 1..(PeakCount - 1) :
            /\ result.peaks[k].position <= result.peaks[k + 1].position
            /\ StrictlyAscending(CallAngle) =>
                  result.peaks[k].position < result.peaks[k + 1].position

(* Two peaks returned on a strictly ascending, non-uniform series. *)
C4_Witness ==
    /\ Returned
    /\ StrictlyAscending(CallAngle)
    /\ ~Uniform(CallAngle)
    /\ PeakCount >= 2

(* C5: a call on a series of fewer than 3 samples signals an error and     *)
(* returns no peak list.                                                   *)
C5_ShortSeriesError ==
    (Called /\ Len(CallAngle) < 3) => ~Ok(result)

(* C7 as stated: the index separation handed to the detector is            *)
(* round(min_distance_degrees / step).                                     *)
C7_DistanceRounded ==
    (Called /\ result.distance # None /\ CallStep > 0) =>
        result.distance[1] = RoundDiv(CallMinDist, CallStep)

(* C7 amended: the index separation handed to the detector is the integer  *)
(* part of min_distance_degrees / step (truncation, not rounding).         *)
C7_DistanceTruncated ==
    (Called /\ result.distance # None /\ CallStep > 0) =>
        /\ result.distance[1] * CallStep <= CallMinDist
        /\ CallMinDist < (result.distance[1] + 1) * CallStep

(* A call that returns a peak and whose quotient has a fractional part of  *)
(* at least half. *)
C7_Witness ==
    /\ Returned
    /\ PeakCount >= 1
    /\ CallStep > 0
    /\ 2 * (CallMinDist % CallStep) >= CallStep

(* Samples on both sides of index i, inside the min-distance window, at or *)
(* below half the peak's intensity: a half-maximum crossing exists.        *)
HalfMaximumCrossed(i) ==
    LET y == CallIntensity
        d == result.distance[1]
    IN /\ \E l \in 1..(i - 1) : i - l <= d /\ 2 * y[l] <= y[i]
       /\ \E r \in (i + 1)..Len(y) : r - i <= d /\ 2 * y[r] <= y[i]

(* C9: fwhm is undefined without refinement, and with refinement every     *)
(* accepted peak with a large enough neighbourhood has a defined fwhm.     *)
C9_OptionalWidth ==
    Returned =>
        \A k \in 1..PeakCount :
            /\ ~fp_call[1].fit_peaks => result.peaks[k].fwhm = None
            /\ (fp_call[1].fit_peaks /\ HalfMaximumCrossed(result.peak_indices[k])) =>
                  result.peaks[k].fwhm # None

(* C10: on at least 3 samples with strictly ascending angle and a positive *)
(* min_distance_degrees, find_peaks returns a list and signals no error.   *)
C10_TotalOnValidInput ==
    (Called /\ Len(CallAngle) >= 3 /\ StrictlyAscending(CallAngle) /\ CallMinDist > 0) =>
        Ok(result)

----------------------------------------------------------------------------
(* Properties of a run of main.                                            *)

(* C6: subtract_background signals an error, and returns no series, when   *)
(* order < 0 and when there are fewer than order + 1 samples.              *)
C6_BackgroundFitErrors ==
    bg_call # None =>
        ((bg_call[1].order < 0 \/ Len(bg_call[1].two_theta) < bg_call[1].order + 1) =>
            bg_call[1].kind # "ok")

(* The entries of a whose angle lies in [lo, hi], in their order. *)
RECURSIVE Truncated(_, _, _, _)
Truncated(tt, a, lo, hi) ==
    IF Len(tt) = 0 THEN <<>>
    ELSE (IF lo <= Head(tt) /\ Head(tt) <= hi THEN <<Head(a)>> ELSE <<>>)
             \o Truncated(Tail(tt), Tail(a), lo, hi)

WindowAngle == Truncated(file.two_theta, file.two_theta, args.range[1], args.range[2])
WindowIntensity == Truncated(file.two_theta, file.intensity, args.range[1], args.range[2])

(* C8: with a window given, background subtraction and peak detection, in  *)
(* the peaks and in the plot command, see exactly the samples of the file  *)
(* whose angle is inside the window, both bounds included, in the file's   *)
(* order; detection after a requested subtraction sees its output.         *)
C8_RangeFilterFirst ==
    args.range # None =>
        /\ bg_call # None =>
              /\ bg_call[1].two_theta = WindowAngle
              /\ bg_call[1].intensity = WindowIntensity
        /\ fp_call # None =>
              /\ fp_call[1].two_theta = WindowAngle
              /\ Len(fp_call[1].intensity) = Len(WindowAngle)
              /\ args.bg_poly = None => fp_call[1].intensity = WindowIntensity
              /\ args.bg_poly # None => (bg_call # None /\ bg_call[1].kind = "ok")
        /\ pc \in {"background", "detect", "report", "done"} => two_theta = WindowAngle

(* The plot command, with a window that drops samples and a background    *)
(* order given, has returned from peak detection. *)
C8_Witness ==
    /\ args.range # None
    /\ args.command = "plot"
    /\ bg_call # None
    /\ Returned
    /\ Len(fp_call[1].two_theta) >= 2
    /\ Len(fp_call[1].two_theta) < Len(file.two_theta)

====
